---- MODULE Spec2Model ----
(***************************************************************************)
(* Model of sqlite-timeseries (src/main.py): a "points" table of           *)
(* (id, time, temperature) rows, filled by generate and read by query.     *)
(*                                                                         *)
(* Units: a Python datetime / timedelta is an integer number of            *)
(* microseconds (its resolution); a value of the "time" column is an       *)
(* integer number of seconds (the Timestamp type decorator, impl Integer). *)
(* An optional value (Python None) is a sequence of length 0 or 1.         *)
(***************************************************************************)
EXTENDS Integers, Sequences, FiniteSets

VARIABLES
    tableExists,   \* the file at "filename" holds the points table
    store,         \* the rows of the points table, in rowid order
    batchOf,       \* history: batchOf[i] is the generate call that inserted store[i]
    batches,       \* history: one entry per generate call, [n, committed]
    out            \* what the last operation logged / raised

vars == <<tableExists, store, batchOf, batches, out>>

-----------------------------------------------------------------------------
\* Bounds of the model.
MaxClock == 3      \* wall-clock readings have whole seconds 0..MaxClock
MaxN     == 3      \* --number-of-points is drawn from 0..MaxN
MaxCalls == 2      \* at most MaxCalls generate calls in a behaviour

\* Microseconds per second: the resolution of datetime and timedelta.
MicrosPerSecond == 1000000

\* temperature=20.5, in tenths of a degree.
TemperatureTenths == 205

\* Sub-second parts a wall-clock reading can have (microseconds).
Fractions == {0, 999999}

\* datetime.now(tz=timezone.utc): any reading, not monotonic across calls.
ClockReadings == {s * MicrosPerSecond + f : s \in 0..MaxClock, f \in Fractions}

None == <<>>
Some(x) == <<x>>
Get(o) == o[1]

-----------------------------------------------------------------------------
\* Timestamp type decorator.

\* int(x / y) for y > 0: Python's int() truncates toward zero.
TruncDiv(x, y) == IF x >= 0 THEN x \div y ELSE -((-x) \div y)

\* int(value.timestamp()): datetime -> column value, sub-second part dropped.
process_bind_param(value) == TruncDiv(value, MicrosPerSecond)

\* datetime.fromtimestamp(value, tz=utc): column value -> datetime.
process_result_value(value) == value * MicrosPerSecond

\* A row as the ORM materialises it: time decoded to a datetime.
Load(row) ==
    [id |-> row.id, time |-> process_result_value(row.time),
     temperature |-> row.temperature]

-----------------------------------------------------------------------------
\* generate

PointTimeMillis(start_time, t) == start_time + t * 1000

\* start_time + timedelta(seconds=t)
PointTime(start_time, t) == start_time + t * MicrosPerSecond

PointsOffByOne(start_time, n_points) ==
    [k \in 1..(n_points - 1) |->
        [time |-> PointTime(start_time, k), temperature |-> TemperatureTenths]]

\* for t in range(n_points): points.append(Point(temperature=20.5, time=...))
Points(start_time, n_points) ==
    [k \in 1..n_points |->
        [time |-> PointTime(start_time, k - 1), temperature |-> TemperatureTenths]]

RECURSIVE MaxId(_)
MaxId(rows) ==
    IF rows = <<>> THEN 0
    ELSE LET m == MaxId(Tail(rows)) IN IF Head(rows).id > m THEN Head(rows).id ELSE m

NextIdRestart(rows) == 1

\* id = Column(Integer, primary_key=True): SQLite assigns max(rowid) + 1.
NextId(rows) == MaxId(rows) + 1

\* The INSERTs of one flush: the pending points in the order they were added,
\* each bound through Timestamp.process_bind_param.
Inserted(rows, points) ==
    [k \in 1..Len(points) |->
        [id |-> NextId(rows) + k - 1,
         time |-> process_bind_param(points[k].time),
         temperature |-> points[k].temperature]]

session_commit_partial(rows, points, ok, flushed) ==
    IF ok THEN rows \o Inserted(rows, points)
    ELSE rows \o SubSeq(Inserted(rows, points), 1, flushed)

\* session.add_all(points); session.commit(): one transaction. When it fails
\* after `flushed` INSERTs the transaction is rolled back.
session_commit(rows, points, ok, flushed) ==
    IF ok THEN rows \o Inserted(rows, points) ELSE rows

\* generate(session, n_points): the table after the call.
generate(rows, start_time, n_points, ok, flushed) ==
    session_commit(rows, Points(start_time, n_points), ok, flushed)

-----------------------------------------------------------------------------
\* init

create_all_recreate(exists, rows) == <<>>

\* Base.metadata.create_all(engine): CREATE TABLE only when the table is absent.
create_all(exists, rows) == IF exists THEN rows ELSE <<>>

-----------------------------------------------------------------------------
\* query

\* session.query(Point).first(): no ORDER BY, SQLite scans in rowid order.
First(rows) == IF rows = <<>> THEN None ELSE Some(Load(rows[1]))

LastCandidatesByRowid(rows) == {Len(rows)}

\* session.query(Point).order_by(Point.time.desc()).first(): a row of maximal
\* time; which one among equal times is left to the engine.
LastCandidates(rows) ==
    {i \in 1..Len(rows) : \A j \in 1..Len(rows) : rows[j].time <= rows[i].time}

\* round(x / y) to the nearest integer, ties to even (timedelta's rounding), y > 0, x >= 0.
RoundHalfEven(x, y) ==
    LET q == x \div y
        r == x % y
    IN  IF 2 * r < y THEN q
        ELSE IF 2 * r > y THEN q + 1
        ELSE IF q % 2 = 0 THEN q ELSE q + 1

\* timedelta(seconds=duration / 3), duration given in microseconds.
Third(duration) ==
    IF duration >= 0 THEN RoundHalfEven(duration, 3) ELSE -RoundHalfEven(-duration, 3)

\* The rows matched by Point.time.between(lo, hi): both bounds are bound
\* through Timestamp.process_bind_param.
Selection(rows, lo, hi) ==
    SelectSeq(rows, LAMBDA r :
        process_bind_param(lo) <= r.time /\ r.time <= process_bind_param(hi))

NoReport(op) ==
    [op |-> op, error |-> "none", start |-> None, n |-> None,
     first |-> None, last |-> None, duration |-> None, count |-> None,
     lo |-> None, hi |-> None, selectionCount |-> None, selectionFirst |-> None]

DurationNoneAsZero(first, last) ==
    Some((IF last = None THEN 0 ELSE Get(last).time)
         - (IF first = None THEN 0 ELSE Get(first).time))

\* (last.time - first.time).total_seconds(): None has no attribute "time".
Duration(first, last) ==
    IF first = None \/ last = None THEN None
    ELSE Some(Get(last).time - Get(first).time)

\* query(session): what it logs, or the error it raises. `pick` is the row
\* the engine returns for `last`.
query(rows, pick) ==
    LET first == First(rows)
        last == IF rows = <<>> THEN None ELSE Some(Load(rows[pick]))
        duration == Duration(first, last)
        found == [NoReport("query") EXCEPT !.first = first, !.last = last]
    IN  IF duration = None
        THEN [found EXCEPT !.error = "AttributeError"]
        ELSE LET t0 == IF first = None THEN 0 ELSE Get(first).time
                 t1 == IF last = None THEN 0 ELSE Get(last).time
                 lo == t0 + Third(Get(duration))
                 hi == t1 - Third(Get(duration))
                 selection == Selection(rows, lo, hi)
             IN  [found EXCEPT
                    !.duration = duration,
                    !.count = Some(Len(rows)),
                    !.lo = Some(lo),
                    !.hi = Some(hi),
                    !.selectionCount = Some(Len(selection)),
                    !.selectionFirst = First(selection)]

-----------------------------------------------------------------------------
\* The state machine.

Init ==
    /\ tableExists = FALSE
    /\ store = <<>>
    /\ batchOf = <<>>
    /\ batches = <<>>
    /\ out = NoReport("none")

\* init(filename)
init ==
    /\ tableExists' = TRUE
    /\ store' = create_all(tableExists, store)
    /\ batchOf' = SubSeq(batchOf, 1, Len(store'))
    /\ out' = NoReport("init")
    /\ UNCHANGED batches

\* The history of one generate call that turned `opened` into `rows`.
Record(opened, rows, n_points, ok) ==
    /\ batches' = Append(batches, [n |-> n_points, committed |-> ok])
    /\ batchOf' = SubSeq(batchOf, 1, Len(opened))
                    \o [k \in 1..(Len(rows) - Len(opened)) |-> Len(batches) + 1]

\* exec_generate(args): generate(session=init(filename), n_points), commit succeeds.
exec_generate ==
    /\ Len(batches) < MaxCalls
    /\ \E start_time \in ClockReadings, n_points \in 0..MaxN :
         LET opened == create_all(tableExists, store) IN
         /\ tableExists' = TRUE
         /\ store' = generate(opened, start_time, n_points, TRUE, n_points)
         /\ Record(opened, store', n_points, TRUE)
         /\ out' = [NoReport("generate") EXCEPT
                      !.start = Some(start_time), !.n = Some(n_points)]

\* exec_generate(args) when session.commit() raises after `flushed` INSERTs.
exec_generate_fails ==
    /\ Len(batches) < MaxCalls
    /\ \E start_time \in ClockReadings, n_points \in 0..MaxN : \E flushed \in 0..n_points :
         LET opened == create_all(tableExists, store) IN
         /\ tableExists' = TRUE
         /\ store' = generate(opened, start_time, n_points, FALSE, flushed)
         /\ Record(opened, store', n_points, FALSE)
         /\ out' = [NoReport("generate") EXCEPT
                      !.error = "InsertFailed",
                      !.start = Some(start_time), !.n = Some(n_points)]

\* exec_query(args): query(session=init(filename))
exec_query ==
    LET opened == create_all(tableExists, store) IN
    /\ tableExists' = TRUE
    /\ store' = opened
    /\ batchOf' = SubSeq(batchOf, 1, Len(opened))
    /\ \E pick \in (IF opened = <<>> THEN {0} ELSE LastCandidates(opened)) :
         out' = query(opened, pick)
    /\ UNCHANGED batches

Next ==
    \/ init
    \/ exec_generate
    \/ exec_generate_fails
    \/ exec_query

Spec == Init /\ [][Next]_vars

-----------------------------------------------------------------------------
\* Vocabulary of the properties.

IsPrefix(s, t) == Len(s) <= Len(t) /\ SubSeq(t, 1, Len(s)) = s

\* The rows generate call b inserted, and their times.
RowsOf(b) == {i \in 1..Len(store) : batchOf[i] = b}
TimesOf(b) == {store[i].time : i \in RowsOf(b)}

Min(S) == CHOOSE x \in S : \A y \in S : x <= y
Max(S) == CHOOSE x \in S : \A y \in S : y <= x

GenerateDone == out.op = "generate" /\ out.error = "none"
QueryDone == out.op = "query" /\ out.error = "none"

\* The rows whose time t satisfies lo <= t <= hi, with lo and hi as query
\* computed them (datetimes, not rounded to whole seconds).
InWindow(lo, hi) ==
    {i \in 1..Len(store) :
        lo <= process_result_value(store[i].time)
        /\ process_result_value(store[i].time) <= hi}

-----------------------------------------------------------------------------
\* C1. Insert count: a successful generate call with n points leaves the
\* store with exactly n more records than before the call (n = 0 leaves the
\* count unchanged), after any sequence of calls.
C1_InsertCount ==
    [][(out'.op = "generate" /\ out'.error = "none")
         => Len(store') = Len(store) + Get(out'.n)]_vars

\* A generate call of 3 points that succeeded on a store that already held records.
C1_Witness == GenerateDone /\ Get(out.n) = 3 /\ Len(store) > 3

\* C2. Atomic batch insert: every batch is in the store whole or not at all;
\* a call whose commit fails leaves the store as it was before the call and
\* signals an error to the caller.
C2_BatchesWhole ==
    /\ Len(batchOf) = Len(store)
    /\ \A b \in 1..Len(batches) :
         /\ Cardinality(RowsOf(b)) = (IF batches[b].committed THEN batches[b].n ELSE 0)
         /\ (b = Len(batches) /\ out.op = "generate")
              => (out.error = "InsertFailed" <=> ~batches[b].committed)

C2_AtomicBatch ==
    /\ []C2_BatchesWhole
    /\ [][out'.error = "InsertFailed" => store' = store]_vars

\* A commit of 3 points failed on a store that already held records.
C2_Witness ==
    /\ out.op = "generate" /\ out.error = "InsertFailed"
    /\ Get(out.n) = 3 /\ Len(store) > 0

\* C3. The first record query fetches is the record of minimum time, on
\* every non-empty store.
C3_FirstIsMinTime ==
    (out.op = "query" /\ store # <<>>)
      => /\ out.first # None
         /\ \A i \in 1..Len(store) :
              Get(out.first).time <= process_result_value(store[i].time)

\* C4. The selection count query reports is the number of records whose
\* time t satisfies lo <= t <= hi, lo = first.time + duration/3 and
\* hi = last.time - duration/3 taken exactly (not rounded to whole seconds).
C4_MiddleThirdExact ==
    (out.op = "query" /\ store # <<>>)
      => /\ QueryDone
         /\ Get(out.lo) = Get(out.first).time + Third(Get(out.duration))
         /\ Get(out.hi) = Get(out.last).time - Third(Get(out.duration))
         /\ Get(out.selectionCount)
              = Cardinality(InWindow(Get(out.lo), Get(out.hi)))

\* C5. Time spacing: the times stored by one generate call with n >= 2 are
\* pairwise distinct and, sorted, one second apart, so they span n - 1
\* seconds; the earliest is the start time's whole second.
C5_TimeSpacing ==
    \A b \in 1..Len(batches) :
      (batches[b].committed /\ batches[b].n >= 2) =>
        LET T == TimesOf(b) IN
        /\ Cardinality(T) = batches[b].n
        /\ \A t \in T : t = Min(T) \/ (t - 1) \in T
        /\ Max(T) - Min(T) = batches[b].n - 1
        /\ (b = Len(batches) /\ GenerateDone)
             => process_result_value(Min(T)) <= Get(out.start)
                /\ Get(out.start) < process_result_value(Min(T) + 1)

\* A generate call of 3 points that read a wall clock with a sub-second part.
C5_Witness ==
    /\ GenerateDone /\ Get(out.n) = 3
    /\ Get(out.start) % MicrosPerSecond # 0

\* C6. Idempotent open: init on a location that holds the points table
\* leaves every record in place and unchanged, alone or as the first step of
\* a generate or query invocation.
C6_IdempotentOpen ==
    [][/\ out'.op = "init" => (store' = store /\ tableExists')
       /\ IsPrefix(store, store')]_vars

\* init ran on a location that already held two batches of records.
C6_Witness ==
    /\ out.op = "init" /\ tableExists
    /\ RowsOf(1) # {} /\ RowsOf(2) # {}

\* C7. Empty-store query: first and last are absent and query ends in an
\* error before a duration, a count, a window bound or a selection is
\* computed; the store stays empty.
C7_EmptyReport ==
    (out.op = "query" /\ store = <<>>)
      => /\ out.first = None /\ out.last = None
         /\ out.error # "none"
         /\ out.duration = None /\ out.count = None
         /\ out.lo = None /\ out.hi = None
         /\ out.selectionCount = None /\ out.selectionFirst = None

C7_EmptyStoreQuery ==
    /\ []C7_EmptyReport
    /\ [][(out'.op = "query" /\ store = <<>>) => store' = <<>>]_vars

\* query ran on a store left empty by a generate call whose commit failed.
C7_Witness ==
    /\ out.op = "query" /\ store = <<>> /\ out.error = "AttributeError"
    /\ Len(batches) > 0

\* C8. Append-only: query leaves the store as it is, generate only adds
\* records after the ones present, and ids stay pairwise distinct.
C8_IdsDistinct ==
    \A i, j \in 1..Len(store) : store[i].id = store[j].id => i = j

C8_AppendOnly ==
    /\ []C8_IdsDistinct
    /\ [][/\ IsPrefix(store, store')
          /\ out'.op = "query" => store' = store]_vars

\* query ran on a store that holds the records of two generate calls.
C8_Witness ==
    /\ QueryDone
    /\ Cardinality(RowsOf(1)) >= 2 /\ Cardinality(RowsOf(2)) >= 2

\* C9. The duration query computes is never negative on a non-empty store,
\* and the encoded window bounds satisfy lo <= hi.
C9_DurationNonNegative ==
    (out.op = "query" /\ store # <<>>)
      => /\ QueryDone
         /\ Get(out.duration) >= 0
         /\ process_bind_param(Get(out.lo)) <= process_bind_param(Get(out.hi))

\* query ran where the first record fetched is not the earliest one and the
\* duration is not a multiple of 3 seconds.
C9_Witness ==
    /\ QueryDone
    /\ \E i \in 1..Len(store) :
         process_result_value(store[i].time) < Get(out.first).time
    /\ Get(out.duration) > 0
    /\ Get(out.duration) % (3 * MicrosPerSecond) # 0

\* C10. On a non-empty store query runs to completion; the first selected
\* record is absent exactly when the selection count is 0, and otherwise
\* is a record whose time lies within the middle-third window [lo, hi].
C10_SelectionFirst ==
    (out.op = "query" /\ store # <<>>)
      => /\ QueryDone
         /\ (out.selectionFirst = None <=> Get(out.selectionCount) = 0)
         /\ out.selectionFirst # None
              => /\ \E i \in 1..Len(store) : Load(store[i]) = Get(out.selectionFirst)
                 /\ Get(out.lo) <= Get(out.selectionFirst).time
                 /\ Get(out.selectionFirst).time <= Get(out.hi)

====
